---------------------------- MODULE Spec2Model ----------------------------
(*************************************************************************)
(* Model of scripts/send_email.py (AI News Radar daily digest mailer):     *)
(* load_news, fetch_twitter_experts, fetch_youtube_channels, build_email,  *)
(* send_email and main.                                                    *)
(*                                                                         *)
(* Strings are sequences of one-character strings, so that escaping and    *)
(* emptiness are computed.  A JSON object is a record                      *)
(*   [k |-> "dict", f |-> its string-valued entries (a function from keys  *)
(*          to strings), c |-> its container-valued entries, in file       *)
(*          order, as [key, val] records]                                  *)
(* a JSON array is [k |-> "list", f |-> <<>>, c |-> its elements], and a    *)
(* JSON number is [k |-> "num", f |-> <<>>, c |-> <<>>].                    *)
(*************************************************************************)
EXTENDS Integers, Sequences, FiniteSets, TLC

VARIABLES
    pc,          \* position of the run in main and in the function it is in
    files,       \* DATA_DIR: candidate file name -> what is on disk
    env,         \* os.environ: variable name -> value (Unset when not set)
    fi,          \* load_news: index of the candidate the for loop is at
    readLog,     \* load_news: names of the files read with read_text, in order
    loaded,      \* load_news: name of the file it returned from ("" when none)
    news_items,  \* main: news_items
    ei,          \* fetch_twitter_experts: index of the expert the loop is at
    mi,          \* fetch_twitter_experts: index of the mirror the inner loop is at
    fetched,     \* fetch_twitter_experts: fetched
    tried,       \* fetch_twitter_experts: the feeds fetched for the current expert
    tw_items,    \* main: tw_items (results of fetch_twitter_experts)
    ci,          \* fetch_youtube_channels: index of the channel the loop is at
    yt_items,    \* main: yt_items (results of fetch_youtube_channels)
    html,        \* main: html_body
    plain,       \* main: plain_body
    port,        \* send_email: port
    missing,     \* send_email: the names printed as missing
    strategy,    \* send_email: the transport block being executed
    exc,         \* the exception in flight ("" when none)
    sent,        \* number of send_message calls that completed
    attempts,    \* send_email: transport blocks entered, in order, with the port
    failures,    \* send_email: the failure lines printed, in order
    opened,      \* number of SMTP / SMTP_SSL constructor calls
    ok,          \* send_email's return value ("none" until it returns)
    exit_status  \* the status the process ended with (-1 while running)

loadVars == <<files, fi, readLog, loaded, news_items>>
twVars   == <<ei, mi, fetched, tried, tw_items>>
ytVars   == <<ci, yt_items>>
mailVars == <<html, plain>>
sendVars == <<env, port, missing, strategy, sent, attempts, failures, opened, ok>>
vars     == <<pc, exc, exit_status, loadVars, twVars, ytVars, mailVars, sendVars>>

--------------------------------------------------------------------------
(* Bounds of the model *)

\* longest array drawn for a snapshot file
MaxSnapLen == 2

\* the default of load_news's max_items, and the value main passes
max_items == 20

Min(a, b) == IF a < b THEN a ELSE b

--------------------------------------------------------------------------
(* JSON values *)

NoFields == <<>>

Dict(f, c) == [k |-> "dict", f |-> f, c |-> c]
List(c)    == [k |-> "list", f |-> NoFields, c |-> c]
Num        == [k |-> "num",  f |-> NoFields, c |-> <<>>]

\* one container-valued entry of a dict
Entry(key, val) == [key |-> key, val |-> val]

\* {"title": "A", "url": "u1"} and {"title": "B", "link": "L1"}
RecUrl  == Dict([title |-> <<"A">>, url |-> <<"u", "1">>], <<>>)
RecLink == Dict([title |-> <<"B">>, link |-> <<"L", "1">>], <<>>)

SnapRecs == {RecUrl, RecLink}

FlatLists == UNION {[1..n -> SnapRecs] : n \in 0..MaxSnapLen}

\* an array one element longer than max_items
LongList == [i \in 1..(max_items + 1) |-> RecUrl]

\* {"TechCrunch": [{"title": "A", "url": "u1"}]}
NamedLists == Dict(NoFields, <<Entry("TechCrunch", List(<<RecUrl>>))>>)

\* {"feeds": {"TechCrunch": [{...url...}], "Blog": [{...link...}]}}
Nested == Dict(NoFields,
               <<Entry("feeds", Dict(NoFields,
                                     <<Entry("TechCrunch", List(<<RecUrl>>)),
                                       Entry("Blog", List(<<RecLink>>))>>))>>)

\* {"generated_at": "1", "items": L}: the shape update_news.py writes
WithItems(v) == Dict([generated_at |-> <<"1">>], <<Entry("items", v)>>)

Snapshots ==
    {List(l) : l \in FlatLists} \cup {WithItems(List(l)) : l \in FlatLists}
    \cup {List(LongList), WithItems(List(LongList)),
          WithItems(Num), WithItems(NamedLists), NamedLists, Nested, Num}

Absent  == [st |-> "absent",  v |-> Num]
Invalid == [st |-> "invalid", v |-> Num]
Json(v) == [st |-> "json",    v |-> v]

FileContents == {Absent, Invalid} \cup {Json(v) : v \in Snapshots}

--------------------------------------------------------------------------
(* load_news *)

\* the list with its first two names exchanged
CandidatesReordered == <<"latest.json", "latest-24h.json", "snapshot.json">>

Candidates == <<"latest-24h.json", "latest.json", "snapshot.json">>

FileNames == {"latest-24h.json", "latest.json", "snapshot.json"}

\* p.exists()
Exists(name) == files[name].st # "absent"

\* data.get(key, default) on a dict node whose default is a node
HasKey(d, key) ==
    key \in DOMAIN d.f \/ \E i \in 1..Len(d.c) : d.c[i].key = key

ChildAt(d, key) ==
    d.c[CHOOSE i \in 1..Len(d.c) : d.c[i].key = key].val

\* The try block of load_news on what is on disk: [raised, items].
\*   json.loads raises on text that is not JSON;
\*   data.get raises AttributeError unless data is a dict (the default
\*     argument is never reached for a list: the attribute lookup is first);
\*   len(items) raises TypeError on a number;
\*   items[:max_items] raises on a dict.
LoadBody(content) ==
    LET data == content.v IN
    IF content.st # "json" THEN [raised |-> TRUE, items |-> <<>>]
    ELSE IF data.k # "dict" THEN [raised |-> TRUE, items |-> <<>>]
    ELSE IF ~HasKey(data, "items") THEN [raised |-> FALSE, items |-> <<>>]
    ELSE LET items == ChildAt(data, "items") IN
         IF items.k # "list" THEN [raised |-> TRUE, items |-> <<>>]
         ELSE [raised |-> FALSE,
               items  |-> SubSeq(items.c, 1, Min(max_items, Len(items.c)))]

\* One iteration of "for fname in [...]": skip a file that does not exist,
\* return from the try block, or print the exception and go on.
LoadCandidate ==
    /\ pc = "load_news"
    /\ fi <= Len(Candidates)
    /\ LET name == Candidates[fi] IN
       IF ~Exists(name)
       THEN /\ fi' = fi + 1
            /\ UNCHANGED <<pc, readLog, loaded, news_items>>
       ELSE LET r == LoadBody(files[name]) IN
            /\ readLog' = Append(readLog, name)
            /\ IF r.raised
               THEN /\ fi' = fi + 1
                    /\ UNCHANGED <<pc, loaded, news_items>>
               ELSE /\ news_items' = r.items
                    /\ loaded' = name
                    /\ pc' = "fetch_twitter"
                    /\ UNCHANGED fi
    /\ UNCHANGED <<files, exc, exit_status, twVars, ytVars, mailVars, sendVars>>

\* The loop ran out of candidates: print the warning, return [].
LoadNone ==
    /\ pc = "load_news"
    /\ fi > Len(Candidates)
    /\ news_items' = <<>>
    /\ pc' = "fetch_twitter"
    /\ UNCHANGED <<files, fi, readLog, loaded, exc, exit_status,
                   twVars, ytVars, mailVars, sendVars>>

--------------------------------------------------------------------------
(* fetch_twitter_experts *)

\* number of entries of TWITTER_EXPERTS the model runs over
NumExperts == 2

\* len(RSSHUB_MIRRORS)
NumMirrors == 3

RSSHUB_MIRRORS ==
    <<"https://rsshub.rssforever.com", "https://rss.shab.fun", "https://rsshub.app">>

\* the host of nitter_url
Nitter == "https://nitter.net"

\* parse_rss_items keeps at most this many entries of a feed
MaxParsed == 3

\* "results.extend(items[:2])": items kept per expert
PerExpert == 2

\* "results.extend(items)": every item parse_rss_items returned
TwTakeAll(e, n) == [j \in 1..n |-> [expert |-> e, n |-> j]]

\* the first PerExpert of the n items parse_rss_items returned for expert e
TwTake(e, n) == [j \in 1..Min(PerExpert, n) |-> [expert |-> e, n |-> j]]

\* One pass of "for mirror in RSSHUB_MIRRORS": n is the number of items
\* parse_rss_items returns, 0 also when fetch_url returns None or the text
\* holds no <item> / <entry>.
TryMirror ==
    /\ pc = "fetch_twitter"
    /\ ei <= NumExperts
    /\ mi <= NumMirrors
    /\ ~fetched
    /\ \E n \in 0..MaxParsed :
         /\ tried' = Append(tried, [source |-> RSSHUB_MIRRORS[mi], got |-> n])
         /\ IF n > 0
            THEN /\ tw_items' = tw_items \o TwTake(ei, n)
                 /\ fetched' = TRUE
                 /\ UNCHANGED mi
            ELSE /\ mi' = mi + 1
                 /\ UNCHANGED <<tw_items, fetched>>
    /\ UNCHANGED <<pc, ei, exc, exit_status, loadVars, ytVars, mailVars, sendVars>>

\* "if not fetched": the Nitter feed, once, after every mirror failed.
TryNitter ==
    /\ pc = "fetch_twitter"
    /\ ei <= NumExperts
    /\ mi = NumMirrors + 1
    /\ ~fetched
    /\ \E n \in 0..MaxParsed :
         /\ tried' = Append(tried, [source |-> Nitter, got |-> n])
         /\ tw_items' = tw_items \o TwTake(ei, n)
         /\ fetched' = (n > 0)
         /\ mi' = mi + 1
    /\ UNCHANGED <<pc, ei, exc, exit_status, loadVars, ytVars, mailVars, sendVars>>

\* End of the body of "for expert in TWITTER_EXPERTS".
NextExpert ==
    /\ pc = "fetch_twitter"
    /\ ei <= NumExperts
    /\ fetched \/ mi > NumMirrors + 1
    /\ ei' = ei + 1
    /\ mi' = 1
    /\ fetched' = FALSE
    /\ tried' = <<>>
    /\ UNCHANGED <<pc, tw_items, exc, exit_status, loadVars, ytVars, mailVars, sendVars>>

TwitterReturn ==
    /\ pc = "fetch_twitter"
    /\ ei > NumExperts
    /\ pc' = "fetch_youtube"
    /\ UNCHANGED <<exc, exit_status, loadVars, twVars, ytVars, mailVars, sendVars>>

--------------------------------------------------------------------------
(* fetch_youtube_channels *)

\* number of entries of YOUTUBE_CHANNELS the model runs over
NumChannels == 1

\* "root.findall("atom:entry", ns)[:2]": entries read per channel
PerChannel == 2

\* One pass of "for ch in YOUTUBE_CHANNELS": n is the number of entries with
\* a title among the first PerChannel, 0 also when fetch_url returns None or
\* the text does not parse.
FetchChannel ==
    /\ pc = "fetch_youtube"
    /\ ci <= NumChannels
    /\ \E n \in 0..PerChannel :
         yt_items' = yt_items \o [j \in 1..n |-> [channel |-> ci, n |-> j]]
    /\ ci' = ci + 1
    /\ UNCHANGED <<pc, exc, exit_status, loadVars, twVars, mailVars, sendVars>>

YoutubeReturn ==
    /\ pc = "fetch_youtube"
    /\ ci > NumChannels
    /\ pc' = "build_email"
    /\ UNCHANGED <<exc, exit_status, loadVars, twVars, ytVars, mailVars, sendVars>>

--------------------------------------------------------------------------
(* build_email *)

\* longest news list drawn for build_email
MaxNews == 2

RECURSIVE _esc(_)
\* _esc: & < > " replaced by their entities, every other character kept
_esc(text) ==
    IF text = <<>> THEN <<>>
    ELSE LET ch == Head(text)
             e  == CASE ch = "&"  -> <<"&", "a", "m", "p", ";">>
                      [] ch = "<"  -> <<"&", "l", "t", ";">>
                      [] ch = ">"  -> <<"&", "g", "t", ";">>
                      [] ch = "\"" -> <<"&", "q", "u", "o", "t", ";">>
                      [] OTHER     -> <<ch>>
         IN e \o _esc(Tail(text))

\* the literals of build_email
NoTitle == <<"no-title">>   \* the "no title" literal of line 295
Hash    == <<"#">>
Empty   == <<>>

\* item.get(key, default) on a dict
Get(item, key, default) ==
    IF key \in DOMAIN item.f THEN item.f[key] ELSE default

\* "a or b": a when it is truthy (None and "" are falsy)
Or(a, b) == IF a # Empty THEN a ELSE b

\* the url build_email renders for a news item
NewsUrl(item) == Get(item, "url", Hash)

\* the title of a news row of the HTML part
NewsHtmlTitle(item) ==
    _esc(Or(Get(item, "title_zh", Empty), Or(Get(item, "title", Empty), NoTitle)))

\* the title of a news entry of the plain part
NewsPlainTitle(item) ==
    Or(Get(item, "title_zh", Empty), Get(item, "title", Empty))

NewsSrc(item) ==
    _esc(Or(Get(item, "source", Empty), Or(Get(item, "site_name", Empty), Empty)))

\* one <tr> of news_rows and one entry of news_plain
NewsRow(i, item) ==
    [n |-> i, title |-> NewsHtmlTitle(item), url |-> NewsUrl(item),
     src |-> NewsSrc(item)]

NewsPlain(i, item) ==
    [n |-> i, title |-> NewsPlainTitle(item), url |-> NewsUrl(item)]

\* A section of a part: the count shown in its heading, its entries, and
\* whether the "no data" text stands in for them.
Section(count, rows) ==
    [count |-> count, rows |-> rows, placeholder |-> (rows = <<>>)]

\* url = item.get("url", "#"): fetched items always carry a url
TwRow(item)   == [expert |-> item.expert, n |-> item.n, link |-> TRUE]
YtRow(item)   == [channel |-> item.channel, n |-> item.n]

BuildHtml(news, tw, yt) ==
    [news |-> Section(Len(news), [i \in 1..Len(news) |-> NewsRow(i, news[i])]),
     tw   |-> Section(Len(tw),   [i \in 1..Len(tw)   |-> TwRow(tw[i])]),
     yt   |-> Section(Len(yt),   [i \in 1..Len(yt)   |-> YtRow(yt[i])])]

\* the plain part with the Twitter heading counting the YouTube items
BuildPlainMiscount(news, tw, yt) ==
    [news |-> Section(Len(news), [i \in 1..Len(news) |-> NewsPlain(i, news[i])]),
     tw   |-> [count |-> Len(yt), rows |-> [i \in 1..Len(tw) |-> TwRow(tw[i])],
               placeholder |-> (tw = <<>>)],
     yt   |-> Section(Len(yt),   [i \in 1..Len(yt)   |-> YtRow(yt[i])])]

BuildPlain(news, tw, yt) ==
    [news |-> Section(Len(news), [i \in 1..Len(news) |-> NewsPlain(i, news[i])]),
     tw   |-> Section(Len(tw),   [i \in 1..Len(tw)   |-> TwRow(tw[i])]),
     yt   |-> Section(Len(yt),   [i \in 1..Len(yt)   |-> YtRow(yt[i])])]

NoMail == [news |-> Section(0, <<>>), tw |-> Section(0, <<>>), yt |-> Section(0, <<>>)]

\* item.get raises AttributeError on an element that is not a dict
BuildRaises(news) == \E i \in 1..Len(news) : news[i].k # "dict"

\* build_email(news_items, tw_items, yt_items), called from main
BuildEmail ==
    /\ pc = "build_email"
    /\ IF BuildRaises(news_items)
       THEN /\ exc' = "AttributeError"
            /\ pc' = "raised"
            /\ UNCHANGED mailVars
       ELSE /\ html'  = BuildHtml(news_items, tw_items, yt_items)
            /\ plain' = BuildPlain(news_items, tw_items, yt_items)
            /\ pc' = "send_email"
            /\ UNCHANGED exc
    /\ UNCHANGED <<exit_status, loadVars, twVars, ytVars, sendVars>>

\* the dicts drawn as news items: every combination of title, title_zh, url
\* and link being absent, empty or set, and three with a source label
FieldValues(key) ==
    CASE key = "title"    -> {Empty, <<"A">>}
      [] key = "title_zh" -> {<<"Z">>}
      [] key = "url"      -> {Empty, <<"u", "1">>}
      [] key = "link"     -> {<<"L", "1">>}

ItemFields == {"title", "title_zh", "url", "link"}

AllValues == UNION {FieldValues(key) : key \in ItemFields}

NewsDicts ==
    {Dict(f, <<>>) : f \in UNION {
        {g \in [D -> AllValues] : \A key \in D : g[key] \in FieldValues(key)}
            : D \in SUBSET ItemFields}}
    \cup {Dict([title |-> <<"A">>, url |-> <<"u", "1">>, source |-> <<"S", "&">>], <<>>),
          Dict([title |-> <<"A">>, url |-> <<"u", "1">>, site_name |-> <<"N">>], <<>>),
          Dict([title |-> <<"<", "A", ">">>, url |-> <<"u", "1">>,
                source |-> Empty, site_name |-> <<"N">>], <<>>)}

NewsLists == UNION {[1..n -> NewsDicts] : n \in 0..MaxNews}

--------------------------------------------------------------------------
(* send_email *)

\* the variables send_email requires, in the order of its dict literal
Required == <<"SMTP_SERVER", "SENDER_EMAIL", "SMTP_PASSWORD", "RECEIVER_EMAIL">>

\* os.environ.get(name, default)
EnvGet(name, default) == IF name \in DOMAIN env THEN env[name] ELSE default

Digits == [c \in {"0", "1", "2", "3", "4", "5", "6", "7", "8", "9"} |->
             CASE c = "0" -> 0 [] c = "1" -> 1 [] c = "2" -> 2 [] c = "3" -> 3
               [] c = "4" -> 4 [] c = "5" -> 5 [] c = "6" -> 6 [] c = "7" -> 7
               [] c = "8" -> 8 [] c = "9" -> 9]

RECURSIVE DecimalValue(_, _)
DecimalValue(text, acc) ==
    IF text = <<>> THEN acc
    ELSE DecimalValue(Tail(text), 10 * acc + Digits[Head(text)])

\* int(text): -1 stands for ValueError (no digits, or a character that is
\* not a digit)
int(text) ==
    IF text = <<>> \/ \E i \in 1..Len(text) : text[i] \notin DOMAIN Digits
    THEN -1
    ELSE DecimalValue(text, 0)

DefaultPort == <<"5", "8", "7">>

\* "[k for k, v in {...}.items() if not v]"
RECURSIVE MissingFrom(_)
MissingFrom(names) ==
    IF names = <<>> THEN <<>>
    ELSE (IF EnvGet(Head(names), Empty) = Empty THEN <<Head(names)>> ELSE <<>>)
         \o MissingFrom(Tail(names))

\* the port SMTP_SSL is given
SslPort == 465

\* the transport blocks, in the order of the code
Strategies == <<"STARTTLS", "SSL">>

\* Lines 459-481: read the environment, refuse when a required variable is
\* missing or empty, else build the message.  int() runs before the check.
SendStart ==
    /\ pc = "send_email"
    /\ LET p == int(EnvGet("SMTP_PORT", DefaultPort))
           m == MissingFrom(Required)
       IN IF p = -1
          THEN /\ exc' = "ValueError"
               /\ pc' = "raised"
               /\ UNCHANGED <<port, missing, ok, strategy>>
          ELSE /\ port' = p
               /\ UNCHANGED exc
               /\ IF m # <<>>
                  THEN /\ missing' = m
                       /\ ok' = "False"
                       /\ pc' = "main_exit"
                       /\ UNCHANGED strategy
                  ELSE /\ strategy' = Strategies[1]
                       /\ pc' = "connect"
                       /\ UNCHANGED <<missing, ok>>
    /\ UNCHANGED <<env, sent, attempts, failures, opened, exit_status,
                   loadVars, twVars, ytVars, mailVars>>

PortOf(s) == IF s = "STARTTLS" THEN port ELSE SslPort

\* "smtplib.SMTP(server, port, timeout=30)" / "smtplib.SMTP_SSL(server, 465,
\* ...)": the constructor connects; when it raises, the with block is never
\* entered.
Connect ==
    /\ pc = "connect"
    /\ attempts' = Append(attempts, [strategy |-> strategy, port |-> PortOf(strategy)])
    /\ opened' = opened + 1
    /\ \E connected \in BOOLEAN :
         IF connected
         THEN /\ pc' = IF strategy = "STARTTLS" THEN "upgrade" ELSE "login"
              /\ UNCHANGED exc
         ELSE /\ exc' = "connect"
              /\ pc' = "except"
    /\ UNCHANGED <<env, port, missing, strategy, sent, failures, ok,
                   exit_status, loadVars, twVars, ytVars, mailVars>>

\* "s.ehlo(); s.starttls(); s.ehlo()" (STARTTLS block only)
Upgrade ==
    /\ pc = "upgrade"
    /\ \E done \in BOOLEAN :
         IF done
         THEN pc' = "login" /\ UNCHANGED exc
         ELSE exc' = "starttls" /\ pc' = "release"
    /\ UNCHANGED <<exit_status, loadVars, twVars, ytVars, mailVars, sendVars>>

\* "s.login(user, password)"
Login ==
    /\ pc = "login"
    /\ \E done \in BOOLEAN :
         IF done
         THEN pc' = "send_message" /\ UNCHANGED exc
         ELSE exc' = "login" /\ pc' = "release"
    /\ UNCHANGED <<exit_status, loadVars, twVars, ytVars, mailVars, sendVars>>

\* "s.send_message(msg)": completes, or raises
SendMessage ==
    /\ pc = "send_message"
    /\ \E done \in BOOLEAN :
         IF done
         THEN sent' = sent + 1 /\ pc' = "release" /\ UNCHANGED exc
         ELSE exc' = "send" /\ pc' = "release" /\ UNCHANGED sent
    /\ UNCHANGED <<env, port, missing, strategy, attempts, failures, opened, ok,
                   exit_status, loadVars, twVars, ytVars, mailVars>>

\* Leaving the with block: SMTP.__exit__ sends QUIT and closes.  A reply of
\* 221, or the server having disconnected, leaves the exception in flight
\* (if any) as it is; any other reply raises SMTPResponseException, which
\* replaces it.
Release ==
    /\ pc = "release"
    /\ \E quit \in {"221", "disconnected", "other"} :
         exc' = IF quit = "other" THEN "quit" ELSE exc
    /\ pc' = IF exc' = "" THEN "return_true" ELSE "except"
    /\ UNCHANGED <<exit_status, loadVars, twVars, ytVars, mailVars, sendVars>>

\* "print(...); return True" after the with block
ReturnTrue ==
    /\ pc = "return_true"
    /\ ok' = "True"
    /\ pc' = "main_exit"
    /\ UNCHANGED <<env, port, missing, strategy, sent, attempts, failures, opened,
                   exc, exit_status, loadVars, twVars, ytVars, mailVars>>

\* the handlers with the first one reduced to "except Exception: pass"
ExceptSilent ==
    /\ pc = "except"
    /\ failures' = IF strategy = "STARTTLS" THEN failures
                   ELSE Append(failures, [strategy |-> strategy, reason |-> exc])
    /\ exc' = ""
    /\ IF strategy = "STARTTLS"
       THEN /\ strategy' = "SSL"
            /\ pc' = "connect"
            /\ UNCHANGED ok
       ELSE /\ ok' = "False"
            /\ pc' = "main_exit"
            /\ UNCHANGED strategy
    /\ UNCHANGED <<env, port, missing, sent, attempts, opened,
                   exit_status, loadVars, twVars, ytVars, mailVars>>

\* "except Exception as e: print(f"... failed: {e}")", then the next block, or
\* after the last one "print(...); return False"
Except ==
    /\ pc = "except"
    /\ failures' = Append(failures, [strategy |-> strategy, reason |-> exc])
    /\ exc' = ""
    /\ IF strategy = Strategies[1]
       THEN /\ strategy' = Strategies[2]
            /\ pc' = "connect"
            /\ UNCHANGED ok
       ELSE /\ ok' = "False"
            /\ pc' = "main_exit"
            /\ UNCHANGED strategy
    /\ UNCHANGED <<env, port, missing, sent, attempts, opened,
                   exit_status, loadVars, twVars, ytVars, mailVars>>

--------------------------------------------------------------------------
(* main *)

\* "sys.exit(0 if ok else 1)"
\* "sys.exit(0)"
ExitStatusZero(result) == 0

ExitStatus(result) == IF result = "True" THEN 0 ELSE 1

MainExit ==
    /\ pc = "main_exit"
    /\ exit_status' = ExitStatus(ok)
    /\ pc' = "exited"
    /\ UNCHANGED <<exc, loadVars, twVars, ytVars, mailVars, sendVars>>

\* An exception no handler of main catches: the interpreter prints the
\* traceback and the process ends with status 1.
Uncaught ==
    /\ pc = "raised"
    /\ exit_status' = 1
    /\ pc' = "exited"
    /\ UNCHANGED <<exc, loadVars, twVars, ytVars, mailVars, sendVars>>

--------------------------------------------------------------------------
(* Initial states and specifications *)

\* the values a required variable is drawn from: not set, empty, set
EnvValues == {Empty, <<"v">>}

\* the values SMTP_PORT is drawn from: not set, empty, a port, not a number
PortValues == {Empty, <<"2", "5", "2", "5">>, <<"a", "b", "c">>}

EnvNames == {"SMTP_SERVER", "SENDER_EMAIL", "SMTP_PASSWORD", "RECEIVER_EMAIL",
             "SMTP_PORT"}

Environments ==
    UNION {{e \in [D -> EnvValues \cup PortValues] :
              \A name \in D : e[name] \in (IF name = "SMTP_PORT" THEN PortValues
                                                               ELSE EnvValues)}
           : D \in SUBSET EnvNames}

FullEnv == [SMTP_SERVER |-> <<"v">>, SENDER_EMAIL |-> <<"v">>,
            SMTP_PASSWORD |-> <<"v">>, RECEIVER_EMAIL |-> <<"v">>]

\* the state before any function has run, at position p of main
Start(p) ==
    /\ pc = p
    /\ exc = ""
    /\ exit_status = -1
    /\ fi = 1 /\ readLog = <<>> /\ loaded = ""
    /\ ei = 1 /\ mi = 1 /\ fetched = FALSE /\ tried = <<>> /\ tw_items = <<>>
    /\ ci = 1 /\ yt_items = <<>>
    /\ html = NoMail /\ plain = NoMail
    /\ port = 0 /\ missing = <<>> /\ strategy = "" /\ sent = 0
    /\ attempts = <<>> /\ failures = <<>> /\ opened = 0 /\ ok = "none"

NoFiles == [name \in FileNames |-> Absent]

\* main, from its first line: a run of the whole program
MainFileSystems ==
    {NoFiles,
     [NoFiles EXCEPT !["latest-24h.json"] = Json(WithItems(List(<<RecUrl, RecLink>>)))],
     [NoFiles EXCEPT !["latest-24h.json"] = Invalid,
                     !["latest.json"] = Json(WithItems(List(<<RecUrl>>)))],
     [NoFiles EXCEPT !["latest-24h.json"] = Json(List(<<RecUrl>>)),
                     !["snapshot.json"] = Json(WithItems(List(<<Num>>)))]}

MainEnvs == {FullEnv, [SMTP_PORT |-> Empty] @@ FullEnv,
             [SMTP_PORT |-> <<"2", "5">>, SMTP_SERVER |-> <<"v">>,
              SENDER_EMAIL |-> <<"v">>, SMTP_PASSWORD |-> Empty]}

Init ==
    /\ Start("load_news")
    /\ files \in MainFileSystems
    /\ env \in MainEnvs
    /\ news_items = <<>>

LoadNews == LoadCandidate \/ LoadNone

FetchTwitterExperts == TryMirror \/ TryNitter \/ NextExpert \/ TwitterReturn

FetchYoutubeChannels == FetchChannel \/ YoutubeReturn

SendEmail ==
    SendStart \/ Connect \/ Upgrade \/ Login \/ SendMessage \/ Release
    \/ ReturnTrue \/ Except

Next ==
    \/ LoadNews
    \/ FetchTwitterExperts
    \/ FetchYoutubeChannels
    \/ BuildEmail
    \/ SendEmail
    \/ MainExit
    \/ Uncaught

Spec == Init /\ [][Next]_vars

\* main runs on one thread and takes its next step whenever it has one
FairSpec == Spec /\ WF_vars(Next)

\* load_news alone, over every content of the three candidate files
InitLoad ==
    /\ Start("load_news")
    /\ files \in [FileNames -> FileContents]
    /\ env = FullEnv
    /\ news_items = <<>>

SpecLoad == InitLoad /\ [][LoadNews]_vars

\* build_email alone, over every list of news dicts
InitBuild ==
    /\ Start("build_email")
    /\ files = NoFiles
    /\ env = FullEnv
    /\ news_items \in NewsLists

SpecBuild == InitBuild /\ [][BuildEmail]_vars

\* send_email alone, over every environment
InitSend ==
    /\ Start("send_email")
    /\ files = NoFiles
    /\ env \in Environments
    /\ news_items = <<>>

SpecSend == InitSend /\ [][SendEmail]_vars

--------------------------------------------------------------------------
(* Properties of send_email (checked under SpecSend) *)

IsPrefix(a, b) == Len(a) <= Len(b) /\ \A i \in 1..Len(a) : a[i] = b[i]

\* C1: in one invocation of send_email the message is transmitted at most
\* once: no run holds two completed send_message calls, whatever the
\* outcomes of connect, TLS upgrade, login, send and release are.
C1_AtMostOnce == sent <= 1

\* C2: the strategies are attempted in the order STARTTLS (on the configured
\* port), SSL (on port 465), each at most once; SSL is attempted only when STARTTLS completed no transmission (no
\* strategy is attempted after a success); and send_email returns True
\* exactly when some strategy completed transmission.
C2_FirstSuccessStops ==
    /\ IsPrefix(attempts, <<[strategy |-> "STARTTLS", port |-> port],
                            [strategy |-> "SSL", port |-> 465]>>)
    /\ (strategy = "SSL" /\ pc = "connect" => sent = 0)
    /\ (pc = "main_exit" => (ok = "True" <=> sent >= 1))

\* a required variable is not set, or set to the empty string
IsMissing(name) == name \notin DOMAIN env \/ env[name] = <<>>

RequiredNames == {"SMTP_SERVER", "SENDER_EMAIL", "SMTP_PASSWORD", "RECEIVER_EMAIL"}

\* C3: when a required setting is missing or empty, send_email returns False
\* without opening a connection or attempting a strategy, and names exactly
\* the missing settings.
C3_MissingConfigReported ==
    ((\E name \in RequiredNames : IsMissing(name)) /\ pc # "send_email")
    => /\ pc = "main_exit"
       /\ ok = "False"
       /\ opened = 0
       /\ attempts = <<>>
       /\ {missing[i] : i \in 1..Len(missing)} = {name \in RequiredNames : IsMissing(name)}
       /\ Len(missing) = Cardinality({name \in RequiredNames : IsMissing(name)})

FailureReasons == {"connect", "starttls", "login", "send", "quit"}

\* C4: when both transport strategies were attempted and neither returned
\* True, send_email returns False and has recorded exactly one failure
\* reason per strategy, in attempt order; and at no time are there more
\* recorded failures than attempts.
C4_FallbackExhaustion ==
    /\ Len(failures) <= Len(attempts)
    /\ (pc = "main_exit" /\ Len(attempts) = 2 /\ ok # "True")
       => /\ ok = "False"
          /\ Len(failures) = 2
          /\ failures[1].strategy = "STARTTLS"
          /\ failures[2].strategy = "SSL"
          /\ \A i \in 1..2 : failures[i].reason \in FailureReasons

C4_Witness ==
    /\ pc = "main_exit"
    /\ ok = "False"
    /\ failures = <<[strategy |-> "STARTTLS", reason |-> "login"],
                    [strategy |-> "SSL", reason |-> "connect"]>>

--------------------------------------------------------------------------
(* Properties of main (checked under FairSpec) *)

\* C5: every run of main ends with an exit status; the status is 0 exactly
\* when send_email returned True, and a status of 0 comes with a completed
\* transmission.
C5_ExitStatus ==
    /\ [](pc = "exited" => /\ exit_status \in {0, 1}
                           /\ (exit_status = 0 <=> ok = "True")
                           /\ (exit_status = 0 => sent >= 1))
    /\ <>(pc = "exited")

\* no snapshot, nothing fetched, and the digest was still delivered
C5_Witness ==
    /\ pc = "exited"
    /\ exit_status = 0
    /\ loaded = "" /\ news_items = <<>> /\ tw_items = <<>> /\ yt_items = <<>>

--------------------------------------------------------------------------
(* Properties of load_news (checked under SpecLoad) *)

CandidateOrder == <<"latest-24h.json", "latest.json", "snapshot.json">>

\* A candidate loads when it holds JSON whose root is an object with no
\* "items" entry or with an "items" array: everything else makes the try
\* block of load_news raise, which load_news reports as a failure to load.
Loadable(name) ==
    /\ files[name].st = "json"
    /\ files[name].v.k = "dict"
    /\ \A i \in 1..Len(files[name].v.c) :
         files[name].v.c[i].key = "items" => files[name].v.c[i].val.k = "list"

\* the records of a loadable candidate, up to max_items
RecordsOf(name) ==
    LET v == files[name].v
        at == {i \in 1..Len(v.c) : v.c[i].key = "items"}
    IN IF at = {} THEN <<>>
       ELSE LET l == v.c[CHOOSE i \in at : TRUE].val.c
            IN [j \in 1..Min(max_items, Len(l)) |-> l[j]]

\* the candidates among the first n that exist, in candidate order
RECURSIVE ExistingAmong(_)
ExistingAmong(n) ==
    IF n = 0 THEN <<>>
    ELSE ExistingAmong(n - 1)
         \o (IF files[CandidateOrder[n]].st # "absent"
             THEN <<CandidateOrder[n]>> ELSE <<>>)

WellFormed(node) ==
    node.k = "dict" /\ "title" \in DOMAIN node.f /\ "url" \in DOMAIN node.f

\* C7: when the first existing snapshot's root is a flat array of
\* well-formed records, load_news returns exactly those records in order
\* (up to max_items) and reads no later candidate.
C7_FlatListRoot ==
    \A i \in 1..3 :
        LET name == CandidateOrder[i] IN
        ( /\ pc # "load_news"
          /\ ExistingAmong(i) = <<name>>
          /\ files[name].st = "json"
          /\ files[name].v.k = "list"
          /\ \A j \in 1..Len(files[name].v.c) : WellFormed(files[name].v.c[j]) )
        => /\ loaded = name
           /\ readLog = <<name>>
           /\ news_items = SubSeq(files[name].v.c, 1,
                                  Min(max_items, Len(files[name].v.c)))

\* a mapping with a title key and a url or link key
IsTerminal(node) ==
    /\ node.k = "dict"
    /\ "title" \in DOMAIN node.f
    /\ ("url" \in DOMAIN node.f \/ "link" \in DOMAIN node.f)

\* the number of terminal records in a snapshot: a terminal is not descended
\* into, a container or an array is, a scalar contributes nothing
RECURSIVE CountTerminals(_)
RECURSIVE CountIn(_, _)
CountTerminals(node) ==
    IF IsTerminal(node) THEN 1
    ELSE IF node.k = "dict" THEN CountIn(node.c, TRUE)
    ELSE IF node.k = "list" THEN CountIn(node.c, FALSE)
    ELSE 0

CountIn(children, entries) ==
    IF children = <<>> THEN 0
    ELSE CountTerminals(IF entries THEN Head(children).val ELSE Head(children))
         + CountIn(Tail(children), entries)

\* C8: from a snapshot holding N terminal records (N within max_items), at
\* whatever depth, load_news returns exactly N records; the record of
\* {"TechCrunch": [{"title": "A", "url": "u1"}]} comes with source
\* "TechCrunch".
C8_ExtractionTotal ==
    (loaded # "" /\ CountTerminals(files[loaded].v) <= max_items)
    => /\ Len(news_items) = CountTerminals(files[loaded].v)
       /\ (files[loaded].v = NamedLists
           => /\ "source" \in DOMAIN news_items[1].f
              /\ news_items[1].f["source"]
                 = <<"T", "e", "c", "h", "C", "r", "u", "n", "c", "h">>)

--------------------------------------------------------------------------
(* Properties of build_email (checked under SpecBuild) *)

\* C9: build_email does not raise, and renders one entry per news item, in
\* input order, in the HTML part and in the plain part, each with a
\* non-empty title and a non-empty url.
C9_EveryItemRendered ==
    pc # "build_email" =>
        /\ pc = "send_email"
        /\ Len(html.news.rows) = Len(news_items)
        /\ Len(plain.news.rows) = Len(news_items)
        /\ \A i \in 1..Len(news_items) :
             /\ html.news.rows[i].n = i
             /\ plain.news.rows[i].n = i
             /\ html.news.rows[i].title # <<>>
             /\ html.news.rows[i].url # <<>>
             /\ plain.news.rows[i].title # <<>>
             /\ plain.news.rows[i].url # <<>>

\* C10: a record with a link and no url is rendered with the link as its
\* url; a record with neither is rendered with the url "#".
C10_LinkFallback ==
    pc = "send_email" =>
        \A i \in 1..Len(news_items) :
            LET f == news_items[i].f IN
            ("title" \in DOMAIN f /\ "url" \notin DOMAIN f)
            => LET want == IF "link" \in DOMAIN f THEN f["link"] ELSE <<"#">> IN
               /\ html.news.rows[i].url = want
               /\ plain.news.rows[i].url = want

--------------------------------------------------------------------------
(* Properties of the rendered digest (checked under Spec) *)

\* the items main hands to build_email for a section
SectionItems(sec) ==
    CASE sec = "news" -> news_items
      [] sec = "tw"   -> tw_items
      [] sec = "yt"   -> yt_items

\* C11: in a rendered digest every section (news, Twitter experts, YouTube)
\* reports the same count in the plain part as in the HTML part, the count
\* is the number of items of the section, and each part renders as many
\* entries as it reports; an empty section reports 0 and shows the
\* placeholder in both parts, a non-empty one shows no placeholder.
C11_SectionCounts ==
    pc = "send_email" =>
        \A sec \in {"news", "tw", "yt"} :
            /\ html[sec].count = plain[sec].count
            /\ html[sec].count = Len(SectionItems(sec))
            /\ Len(html[sec].rows) = html[sec].count
            /\ Len(plain[sec].rows) = plain[sec].count
            /\ html[sec].placeholder = (html[sec].count = 0)
            /\ plain[sec].placeholder = (plain[sec].count = 0)

\* a digest with two news items, no Twitter item and one YouTube item
C11_Witness ==
    /\ pc = "send_email"
    /\ html.news.count = 2 /\ Len(plain.news.rows) = 2
    /\ html.tw.count = 0 /\ plain.tw.placeholder
    /\ plain.yt.count = 1 /\ ~html.yt.placeholder

--------------------------------------------------------------------------
(* Properties of fetch_twitter_experts (checked under Spec) *)

\* the feeds of one expert, in the order the code is to try them
SourceOrder ==
    <<"https://rsshub.rssforever.com", "https://rss.shab.fun", "https://rsshub.app",
      "https://nitter.net">>

\* the number of items of expert e in the result
ItemsOfExpert(e) == Cardinality({i \in 1..Len(tw_items) : tw_items[i].expert = e})

\* C12: for each expert the mirrors are fetched in configured order, and
\* Nitter after them, each at most once; a feed is fetched only while every
\* feed before it yielded no item (the loop stops at the first mirror that
\* yields, Nitter is tried only when every mirror failed); the expert's
\* items are the first 2 at most of the one feed that yielded, none when
\* every feed failed; the result holds at most 2 items per expert, grouped
\* in expert order; and the function returns only after the last expert,
\* whatever failed before.
C12_TwitterFallback ==
    /\ IsPrefix([i \in 1..Len(tried) |-> tried[i].source], SourceOrder)
    /\ \A i \in 1..(Len(tried) - 1) : tried[i].got = 0
    /\ fetched = (tried # <<>> /\ tried[Len(tried)].got > 0)
    /\ (ei <= NumExperts =>
          ItemsOfExpert(ei) = IF tried = <<>> THEN 0
                              ELSE IF tried[Len(tried)].got < 2 THEN tried[Len(tried)].got
                              ELSE 2)
    /\ \A i \in 1..Len(tw_items) :
          /\ tw_items[i].expert \in 1..NumExperts
          /\ tw_items[i].expert <= ei
          /\ ItemsOfExpert(tw_items[i].expert) <= 2
          /\ \A j \in i..Len(tw_items) : tw_items[i].expert <= tw_items[j].expert
    /\ Len(tw_items) <= 2 * NumExperts
    /\ (pc = "fetch_twitter" /\ ei <= NumExperts /\ ~fetched /\ Len(tried) = 4
          => ItemsOfExpert(ei) = 0 /\ ENABLED NextExpert)
    /\ (pc = "load_news" => ei = 1 /\ tw_items = <<>>)
    /\ (pc \notin {"load_news", "fetch_twitter"} => ei = NumExperts + 1 /\ tried = <<>>)

\* the first expert failed on every feed and added nothing; the second one
\* is fetched from Nitter after the three mirrors failed, 2 of 3 items kept
C12_Witness ==
    /\ pc = "fetch_twitter"
    /\ ei = 2
    /\ [i \in 1..Len(tried) |-> tried[i].got] = <<0, 0, 0, 3>>
    /\ tried[4].source = "https://nitter.net"
    /\ tw_items = <<[expert |-> 2, n |-> 1], [expert |-> 2, n |-> 2]>>

==========================================================================
